---- MODULE Spec2Model ----
(***************************************************************************)
(* WhatsApp Checkout API sample: the Amount value object (elements.py) and *)
(* the CheckoutBase operations (checkout_base.py), one action per public   *)
(* operation.  A call is one atomic step from pc = "idle" to               *)
(* pc = "returned"; the caller then takes the result (Continue).           *)
(*                                                                         *)
(* Python values: None is the record None; a str is a sequence of          *)
(* one-character strings; a dict is a record whose DOMAIN is its key set;  *)
(* _phone_number_to_id_map (an insertion-ordered dict) is a sequence of    *)
(* [number, id] entries with distinct numbers.                             *)
(***************************************************************************)
EXTENDS Integers, Sequences, FiniteSets, TLC

VARIABLES
    phone_number_to_id_map, \* CheckoutBase._phone_number_to_id_map (class attribute)
    pc,                     \* "idle" | "returned": position of the calling process
    op,                     \* the operation last called
    args,                   \* its arguments
    outcome,                \* "return" or the name of the exception that left it
    line,                   \* source line of the return / raise that ended the call
    ret,                    \* the value returned (None when it returns nothing)
    printed,                \* what the call printed, in order
    requests                \* the HTTP requests the call issued, in order, with their responses

vars == <<phone_number_to_id_map, pc, op, args, outcome, line, ret, printed, requests>>

None == [none |-> TRUE]

VALUE_OFFSET == 100

MaxItems == 2

-----------------------------------------------------------------------------
(* Python str helpers *)

RECURSIVE Digits(_)
Digits(s) ==
    IF s = <<>> THEN <<>>
    ELSE IF Head(s) \in {"0", "1", "2", "3", "4", "5", "6", "7", "8", "9"}
         THEN <<Head(s)>> \o Digits(Tail(s))
         ELSE Digits(Tail(s))

IsPrefix(p, s) == Len(p) <= Len(s) /\ SubSeq(s, 1, Len(p)) = p

removeprefix(s, p) == IF IsPrefix(p, s) THEN SubSeq(s, Len(p) + 1, Len(s)) ELSE s

-----------------------------------------------------------------------------
(* elements.py *)

\* Amount.__init__ without the check of line 30
AmountInit_unchecked_value(value, offset) ==
    IF offset # VALUE_OFFSET THEN [exc |-> "ValueError", line |-> 29]
    ELSE [exc |-> "none", line |-> 33, obj |-> [value |-> value, offset |-> offset]]

\* Amount.__init__: the object built, or the ValueError raised
AmountInit(value, offset) ==
    IF offset # VALUE_OFFSET THEN [exc |-> "ValueError", line |-> 29]
    ELSE IF value % VALUE_OFFSET # 0 THEN [exc |-> "ValueError", line |-> 31]
    ELSE [exc |-> "none", line |-> 33, obj |-> [value |-> value, offset |-> offset]]

\* Amount.toJSON: the JSON object {"value": ..., "offset": ...}
toJSON(a) == [value |-> a.value, offset |-> a.offset]

-----------------------------------------------------------------------------
(* Phone directory *)

MapKeys(m) == {m[i].number : i \in 1..Len(m)}

MapGet(m, k) == (CHOOSE i \in 1..Len(m) : m[i].number = k)

\* dict[k] = v on an insertion-ordered dict
MapPut(m, k, v) ==
    IF k \in MapKeys(m)
    THEN [i \in 1..Len(m) |-> IF m[i].number = k THEN [number |-> k, id |-> v] ELSE m[i]]
    ELSE Append(m, [number |-> k, id |-> v])

RECURSIVE PutAll(_, _)
PutAll(m, data) ==
    IF data = <<>> THEN m
    ELSE PutAll(MapPut(m, Digits(Head(data).display_phone_number), Head(data).id), Tail(data))

DirectoryRequest(resp) ==
    [method |-> "GET", endpoint |-> "phone_numbers", status |-> resp.status]

\* _load_phone_numbers against the directory response resp
load_phone_numbers(m, resp) ==
    IF resp.status # 200
    THEN [exc |-> "Exception", line |-> 65, map |-> m, reqs |-> <<DirectoryRequest(resp)>>]
    ELSE IF Len(resp.data) = 0
    THEN [exc |-> "Exception", line |-> 69, map |-> m, reqs |-> <<DirectoryRequest(resp)>>]
    ELSE [exc |-> "none", line |-> 76, map |-> PutAll(m, resp.data),
          reqs |-> <<DirectoryRequest(resp)>>]

\* _get_sender_phone_number_id without the test of line 79: every lookup loads
get_sender_phone_number_id_always_loads(m, phone_number, resp) ==
    LET ld == load_phone_numbers(m, resp)
    IN  IF ld.exc # "none" THEN ld
        ELSE IF phone_number \notin MapKeys(ld.map)
        THEN [exc |-> "KeyError", line |-> 81, map |-> ld.map, reqs |-> ld.reqs]
        ELSE [exc |-> "none", line |-> 81, map |-> ld.map, reqs |-> ld.reqs,
              id |-> ld.map[MapGet(ld.map, phone_number)].id]

\* _get_sender_phone_number_id; resp is consulted only when the map is empty
get_sender_phone_number_id(m, phone_number, resp) ==
    LET ld == IF m = <<>> THEN load_phone_numbers(m, resp)
              ELSE [exc |-> "none", line |-> 79, map |-> m, reqs |-> <<>>]
    IN  IF ld.exc # "none" THEN ld
        ELSE IF phone_number \notin MapKeys(ld.map)
        THEN [exc |-> "KeyError", line |-> 81, map |-> ld.map, reqs |-> ld.reqs]
        ELSE [exc |-> "none", line |-> 81, map |-> ld.map, reqs |-> ld.reqs,
              id |-> ld.map[MapGet(ld.map, phone_number)].id]

-----------------------------------------------------------------------------
(* CheckoutBase.send_order_details_msg *)

\* lines 129-139; a Header field that is None or "" (both falsy) is ""
order_header(msg_header) ==
    IF msg_header = None THEN [exc |-> "none", line |-> 129]
    ELSE IF msg_header.type = "text" /\ msg_header.text # ""
    THEN [exc |-> "none", line |-> 132, hd |-> [type |-> "text", text |-> msg_header.text]]
    ELSE IF msg_header.type = "image" /\ msg_header.image_link # ""
    THEN [exc |-> "none", line |-> 134,
          hd |-> [type |-> "image", image |-> [link |-> msg_header.image_link]]]
    ELSE [exc |-> "ValueError", line |-> 138]

\* one entry of item_list, lines 156-168
item_entry(item) ==
    IF item.sale_amount # None
    THEN [amount |-> toJSON(item.amount), quantity |-> item.quantity,
          sale_amount |-> toJSON(item.sale_amount)]
    ELSE [amount |-> toJSON(item.amount), quantity |-> item.quantity]

\* lines 167-171 taking the list price although a sale price is given
effective_amount_list_price(item) == item.amount

\* the amount of the item that counts, lines 167-171
effective_amount(item) ==
    IF item.sale_amount # None THEN item.sale_amount ELSE item.amount

\* the loop of lines 155-181 from the state (total, item_list)
RECURSIVE order_items(_, _, _, _)
order_items(items, offset, total, item_list) ==
    IF items = <<>> THEN [exc |-> "none", line |-> 182, total |-> total, item_list |-> item_list]
    ELSE LET item == Head(items)
             am == effective_amount(item)
         IN  IF offset # am.offset THEN [exc |-> "ValueError", line |-> 173]
             ELSE order_items(Tail(items), offset, total + am.value * item.quantity,
                              Append(item_list, item_entry(item)))

\* lines 187-219: the order-level amount charged when it is passed
charge(amount) == IF amount # None THEN amount.value ELSE 0

charge_block(amount, offset) ==
    IF amount # None THEN [value |-> amount.value, offset |-> offset] ELSE None

\* lines 129-222: the interactive object, or the exception raised while building it
order_details(items, tax_amount, shipping_amount, discount_amount, msg_header) ==
    LET hd == order_header(msg_header)
    IN  IF hd.exc # "none" THEN hd
        ELSE IF items = <<>> THEN [exc |-> "IndexError", line |-> 153]
        ELSE
          LET offset == items[1].amount.offset
              loop == order_items(items, offset, 0, <<>>)
          IN  IF loop.exc # "none" THEN loop
              ELSE
                LET total == loop.total + charge(tax_amount) + charge(shipping_amount)
                                 - charge(discount_amount)
                    total_amount == AmountInit(total, offset)
                IN  IF total_amount.exc # "none"
                    THEN [exc |-> total_amount.exc, line |-> 220]
                    ELSE [exc |-> "none", line |-> 222,
                          interactive |->
                            [type |-> "order_details",
                             header |-> IF msg_header = None THEN None ELSE hd.hd,
                             order |-> [status |-> "pending",
                                        items |-> loop.item_list,
                                        subtotal |-> [value |-> loop.total, offset |-> offset],
                                        tax |-> charge_block(tax_amount, offset),
                                        shipping |-> charge_block(shipping_amount, offset),
                                        discount |-> charge_block(discount_amount, offset)],
                             total_amount |-> toJSON(total_amount.obj)]]

MessageRequest(id, interactive, resp) ==
    [method |-> "POST", endpoint |-> "messages", sender |-> id,
     interactive |-> interactive, status |-> resp.status]

\* response.json() of lines 237, 283 and 296
response_json(resp) == IF resp.json THEN "none" ELSE "JSONDecodeError"

-----------------------------------------------------------------------------
(* CheckoutBase.send_order_status_msg and get_payment_status *)

Say(msg) == [msg |-> msg]

\* send_order_status_msg up to the POST: its interactive object, lines 254-268
order_status(status) ==
    [type |-> "order_status", order |-> [status |-> status]]

PaymentRequest(id, reference_id, resp) ==
    [method |-> "GET", endpoint |-> "payments", sender |-> id,
     reference_id |-> reference_id, status |-> resp.status]

\* get_payment_status; dir answers a directory fetch, resp the payment query
get_payment_status(m, business_phone_number, reference_id, dir, resp) ==
    LET lk == get_sender_phone_number_id(m, business_phone_number, dir)
    IN  IF lk.exc # "none"
        THEN [exc |-> lk.exc, line |-> lk.line, map |-> lk.map, reqs |-> lk.reqs,
              printed |-> <<>>]
        ELSE [exc |-> response_json(resp), line |-> 296, map |-> lk.map,
              reqs |-> Append(lk.reqs, PaymentRequest(lk.id, reference_id, resp)),
              printed |-> IF resp.json THEN <<Say("order payment status response")>>
                          ELSE <<>>]

-----------------------------------------------------------------------------
(* CheckoutBase.verify_webhook *)

SignatureHeader == "X-Hub-Signature-256"

Prefix == <<"s", "h", "a", "2", "5", "6", "=">>

HexDigits ==
    <<"0", "1", "2", "3", "4", "5", "6", "7", "8", "9", "a", "b", "c", "d", "e", "f">>

Bit(b) == IF b THEN 1 ELSE 0

IsJson(payload) == "object" \in DOMAIN payload

\* what the bytes of a payload (identified with the JSON document it spells) add up to
PayloadCode(payload) ==
    IF ~IsJson(payload) THEN 201
    ELSE LET entry == payload.entry[1]
             change == entry.changes[1]
             value == change.value
         IN  Bit(payload.object = "whatsapp_business_account")
             + 2 * Bit(entry.id = "waba")
             + 4 * Bit(change.field = "messages")
             + 8 * Bit("messages" \in DOMAIN value)
             + 16 * Bit("statuses" \in DOMAIN value)
             + 32 * Bit("metadata" \in DOMAIN value)

\* hmac.new(key, payload, sha256).hexdigest(): a keyed digest of the payload bytes as a
\* fixed-length string of lower-case hex digits
hexdigest(key, payload) ==
    LET n == (PayloadCode(payload) * 3 + Len(key) * 89) % 256
    IN  <<HexDigits[(n \div 16) + 1], HexDigits[(n % 16) + 1]>>

IsAscii(s) == \A i \in 1..Len(s) : s[i] # "é"

\* hmac.compare_digest on two str
compare_digest(a, b) ==
    IF ~IsAscii(a) \/ ~IsAscii(b) THEN [exc |-> "TypeError", line |-> 377]
    ELSE [exc |-> "none", line |-> 377, ret |-> (a = b)]

get_app_secret == <<"s", "e", "c", "r", "e", "t">>

verify_webhook(headers, payload) ==
    IF SignatureHeader \notin DOMAIN headers THEN [exc |-> "KeyError", line |-> 371]
    ELSE LET hmac_in_header == removeprefix(headers[SignatureHeader], Prefix)
             hmac_calculated == hexdigest(get_app_secret, payload)
         IN  compare_digest(hmac_in_header, hmac_calculated)

-----------------------------------------------------------------------------
(* CheckoutBase.handle_webhook_call *)

get_waba == "waba"

\* d.get(k)
Get(d, k) == IF k \in DOMAIN d THEN d[k] ELSE None

\* a JSON value that is a string, and one that is an object
JStr(s) == [str |-> s]
JDict(d) == [dict |-> d]
IsStr(v) == "str" \in DOMAIN v
IsDict(v) == "dict" \in DOMAIN v

\* value["metadata"]["display_phone_number"] can be read
HasDisplayNumber(value) ==
    "metadata" \in DOMAIN value /\ "display_phone_number" \in DOMAIN value.metadata

\* the test of line 320 with its sense inverted
Truthy_inverted(v) == v = None \/ DOMAIN v = {}

\* truth value of an optional dict
Truthy(v) == v # None /\ DOMAIN v # {}

Ended(exc, ln, m, pr, rq) ==
    [exc |-> exc, line |-> ln, map |-> m, printed |-> pr, reqs |-> rq]

\* lines 331-364: the first status entry
handle_status(m, payload, value, dir, resp) ==
    IF "statuses" \notin DOMAIN value THEN Ended("KeyError", 331, m, <<>>, <<>>)
    ELSE IF value.statuses = <<>> THEN Ended("IndexError", 331, m, <<>>, <<>>)
    ELSE
      LET entry == value.statuses[1]
          recipient_id == Get(entry, "recipient_id")
          status_type == Get(entry, "type")
          status == Get(entry, "status")      \* line 335 rebinds status to the field
      IN  IF ~IsDict(status) THEN Ended("AttributeError", 336, m, <<>>, <<>>)
          ELSE
            LET payment == Get(status.dict, "payment")
                timestamp == Get(status.dict, "timestamp")
                unrecognized ==
                    Ended("none", 364, m,
                          <<[msg |-> "not a payment confirmation or transaction status update",
                             payload |-> payload]>>, <<>>)
            IN  IF /\ recipient_id # None
                   /\ status_type = JStr("payment")
                   /\ IsStr(status)
                   /\ status.str \in {"pending", "failed", "success", "canceled"}
                   /\ timestamp # None
                   /\ Truthy(payment)
                THEN IF "reference_id" \notin DOMAIN payment
                     THEN Ended("KeyError", 344, m, <<>>, <<>>)
                     ELSE IF ~HasDisplayNumber(value)
                     THEN Ended("KeyError", 351, m, <<>>, <<>>)
                     ELSE IF m = <<>>
                     THEN Ended("IndexError", 356, m,
                                <<Say("transaction status update")>>, <<>>)
                     ELSE LET q == get_payment_status(m, m[1].number, payment.reference_id,
                                                      dir, resp)
                          IN  Ended(q.exc, IF q.exc = "none" THEN 359 ELSE q.line, q.map,
                                    <<Say("transaction status update")>> \o q.printed, q.reqs)
                ELSE unrecognized

\* lines 305-364: the body of a verified callback
handle_verified(m, payload, dir, resp) ==
    IF ~IsJson(payload) THEN Ended("JSONDecodeError", 305, m, <<>>, <<>>)
    ELSE IF payload.object # "whatsapp_business_account"
    THEN Ended("none", 309, m, <<Say("not for whatsapp_business_account")>>, <<>>)
    ELSE IF payload.entry[1].id # get_waba
    THEN Ended("none", 313, m, <<Say("not for this waba")>>, <<>>)
    ELSE IF payload.entry[1].changes[1].field # "messages"
    THEN Ended("none", 317, m, <<Say("not for messages")>>, <<>>)
    ELSE
      LET value == payload.entry[1].changes[1].value
      IN  IF "messages" \notin DOMAIN value THEN Ended("KeyError", 319, m, <<>>, <<>>)
          ELSE IF value.messages = <<>> THEN Ended("IndexError", 319, m, <<>>, <<>>)
          ELSE
            LET interactive == Get(value.messages[1], "interactive")
            IN  IF ~Truthy(interactive) THEN handle_status(m, payload, value, dir, resp)
                ELSE IF "type" \notin DOMAIN interactive
                THEN Ended("KeyError", 320, m, <<>>, <<>>)
                ELSE IF interactive.type # "payment"
                THEN handle_status(m, payload, value, dir, resp)
                ELSE IF "payment" \notin DOMAIN interactive
                THEN Ended("KeyError", 321, m, <<>>, <<>>)
                ELSE IF {"transaction_id", "reference_id", "status"}
                            \ DOMAIN interactive.payment # {}
                THEN Ended("KeyError", 323, m, <<>>, <<>>)
                ELSE IF ~HasDisplayNumber(value)
                THEN Ended("KeyError", 327, m, <<>>, <<>>)
                ELSE Ended("none", 330, m, <<Say("payment confirmation")>>, <<>>)

\* handle_webhook_call without the return of lines 302-304
handle_webhook_call_unguarded(m, headers, payload, dir, resp) ==
    LET v == verify_webhook(headers, payload)
    IN  IF v.exc # "none" THEN Ended(v.exc, v.line, m, <<>>, <<>>)
        ELSE handle_verified(m, payload, dir, resp)

handle_webhook_call(m, headers, payload, dir, resp) ==
    LET v == verify_webhook(headers, payload)
    IN  IF v.exc # "none" THEN Ended(v.exc, v.line, m, <<>>, <<>>)
        ELSE IF ~v.ret THEN Ended("none", 304, m, <<Say("cannot be verified")>>, <<>>)
        ELSE handle_verified(m, payload, dir, resp)

-----------------------------------------------------------------------------
(* The inputs *)

Senders == {<<"1", "2">>, <<"3">>}

Data1 == <<[display_phone_number |-> <<"+", "1", " ", "2">>, id |-> "id-a"]>>
Data2 == <<[display_phone_number |-> <<"3">>, id |-> "id-b"],
           [display_phone_number |-> <<"1", "-", "2">>, id |-> "id-c"],
           [display_phone_number |-> <<"(", "3", ")">>, id |-> "id-d"]>>

DirResponses ==
    {[status |-> 500, data |-> <<>>], [status |-> 200, data |-> <<>>],
     [status |-> 200, data |-> Data1], [status |-> 200, data |-> Data2]}

\* the directory answers only a lookup on an empty map
DirResponsesFor(m) == IF m = <<>> THEN DirResponses ELSE {[status |-> 0, data |-> <<>>]}

Responses ==
    {[status |-> 200, json |-> TRUE], [status |-> 400, json |-> TRUE],
     [status |-> 500, json |-> FALSE]}

\* Amount objects as a caller can hold them: offset is an ordinary attribute
AmountObj(v, o) == [value |-> v, offset |-> o]

ItemAmounts == {AmountObj(200, VALUE_OFFSET), AmountObj(200, 10)}
SaleAmounts == {None, AmountObj(100, VALUE_OFFSET), AmountObj(100, 10)}
Quantities == {1, 2}
Items == [amount : ItemAmounts, sale_amount : SaleAmounts, quantity : Quantities]

RECURSIVE SeqsUpTo(_, _)
SeqsUpTo(S, n) ==
    IF n = 0 THEN {<<>>}
    ELSE LET shorter == SeqsUpTo(S, n - 1)
         IN  shorter \cup {Append(s, x) : s \in {t \in shorter : Len(t) = n - 1}, x \in S}

ItemLists == SeqsUpTo(Items, MaxItems)

TaxAmounts == {None, AmountObj(100, VALUE_OFFSET), AmountObj(100, 10)}
ShippingAmounts == {None, AmountObj(300, VALUE_OFFSET), AmountObj(300, 10)}
DiscountAmounts == {None, AmountObj(1000, VALUE_OFFSET), AmountObj(1000, 10)}

Headers ==
    {None, [type |-> "text", text |-> "hello", image_link |-> ""],
     [type |-> "image", text |-> "", image_link |-> ""]}

\* a dict entry that may be missing
Opt(k, S) == {<<>>} \cup {k :> v : v \in S}

ConfirmedPayment ==
    [transaction_id |-> "txn", reference_id |-> "ref", status |-> "success"]

Interactives ==
    {<<>>, [type |-> "button_reply"], [type |-> "payment"], [payment |-> ConfirmedPayment],
     [type |-> "payment", payment |-> ConfirmedPayment],
     [type |-> "payment", payment |-> [reference_id |-> "ref", status |-> "success"]]}

Messages == {[from |-> "user"] @@ i : i \in Opt("interactive", Interactives)}

StatusPayment == [reference_id |-> "ref"]

StatusValues ==
    {JStr("success"), JStr("delivered"), JDict(<<>>),
     JDict([payment |-> StatusPayment, timestamp |-> JStr("1700")])}

StatusEntries ==
    {[id |-> JStr("wamid")] @@ r @@ t @@ st @@ p @@ ts :
        r \in Opt("recipient_id", {JStr("user")}),
        t \in {[type |-> JStr("payment")], [type |-> JStr("message")]},
        st \in Opt("status", StatusValues),
        p \in Opt("payment", {StatusPayment}),
        ts \in Opt("timestamp", {JStr("1700")})}

CallbackValues ==
    {m @@ md @@ st :
        m \in Opt("messages", {<<>>} \cup {<<x>> : x \in Messages}),
        md \in Opt("metadata", {[display_phone_number |-> "15550001"],
                                [phone_number_id |-> "id-a"]}),
        st \in Opt("statuses", {<<>>} \cup {<<x>> : x \in StatusEntries})}

Callback(object, id, field, value) ==
    [object |-> object,
     entry |-> <<[id |-> id, changes |-> <<[field |-> field, value |-> value]>>]>>]

NotJson == [text |-> "not json"]

\* callbacks for this account with every value, and the other envelopes with one
Payloads ==
    {Callback("whatsapp_business_account", get_waba, "messages", v) : v \in CallbackValues}
    \cup {Callback(o, i, f, [messages |-> <<[from |-> "user"]>>]) :
            o \in {"whatsapp_business_account", "page"}, i \in {get_waba, "other"},
            f \in {"messages", "account_update"}}
    \cup {NotJson}

\* the digest with its i-th hex digit changed
Altered(d, i) ==
    [d EXCEPT ![i] = IF d[i] = "0" THEN "1" ELSE "0"]

\* values of the signature header a sender can put next to a payload
Signatures(payload) ==
    LET d == hexdigest(get_app_secret, payload)
    IN  {Prefix \o d, d, Prefix \o Prefix \o d, Prefix \o d \o <<"0">>, Prefix, <<>>,
         SubSeq(Prefix, 1, 6) \o d, <<"é">>, Prefix \o <<"é", "0">>}
        \cup {Prefix \o Altered(d, i) : i \in 1..Len(d)}
        \cup {Altered(d, i) : i \in 1..Len(d)}

HeaderMaps(payload) ==
    {[Host |-> "merchant"] @@ h : h \in Opt(SignatureHeader, Signatures(payload))}

\* the callbacks handle_webhook_call is given: unsigned, wrongly and rightly signed
CallbackHeaderMaps(payload) ==
    LET d == hexdigest(get_app_secret, payload)
    IN  {[Host |-> "merchant"] @@ h :
            h \in Opt(SignatureHeader, {Prefix \o d, Prefix \o Altered(d, 1)})}

OrderStatuses == {"processing", "shipped"}
ReferenceIds == {"ref", "ref2"}

-----------------------------------------------------------------------------

Init ==
    /\ phone_number_to_id_map = <<>>
    /\ pc = "idle"
    /\ op = "none"
    /\ args = None
    /\ outcome = "none"
    /\ line = 0
    /\ ret = None
    /\ printed = <<>>
    /\ requests = <<>>

\* the end of a call
Finish(o, a, m, exc, ln, r, pr, rq) ==
    /\ pc' = "returned"
    /\ op' = o
    /\ args' = a
    /\ phone_number_to_id_map' = m
    /\ outcome' = IF exc = "none" THEN "return" ELSE exc
    /\ line' = ln
    /\ ret' = r
    /\ printed' = pr
    /\ requests' = rq

Values == {-250, -100, 0, 50, 100, 250, 300}
Offsets == {VALUE_OFFSET, 0, 1, 10, 1000}

\* Amount(value, offset)
NewAmount ==
    /\ pc = "idle"
    /\ \E value \in Values, offset \in Offsets :
        LET a == AmountInit(value, offset)
        IN  Finish("Amount", [value |-> value, offset |-> offset], phone_number_to_id_map,
                   a.exc, a.line, IF a.exc = "none" THEN a.obj ELSE None, <<>>, <<>>)

\* send_order_details_msg(sender_phone_number, items, tax_amount, shipping_amount,
\*                        discount_amount, msg_header)
SendOrderDetails ==
    /\ pc = "idle"
    /\ \E sender \in Senders, items \in ItemLists, tax \in TaxAmounts,
       shipping \in ShippingAmounts, discount \in DiscountAmounts, header \in Headers,
       dir \in DirResponsesFor(phone_number_to_id_map) :
        LET a == [sender_phone_number |-> sender, items |-> items, tax_amount |-> tax,
                  shipping_amount |-> shipping, discount_amount |-> discount,
                  msg_header |-> header]
            lk == get_sender_phone_number_id(phone_number_to_id_map, sender, dir)
            b == order_details(items, tax, shipping, discount, header)
        IN  IF lk.exc # "none"
            THEN Finish("send_order_details_msg", a, lk.map, lk.exc, lk.line, None,
                        <<>>, lk.reqs)
            ELSE IF b.exc # "none"
            THEN Finish("send_order_details_msg", a, lk.map, b.exc, b.line, None,
                        <<>>, lk.reqs)
            ELSE \E resp \in Responses :
                    Finish("send_order_details_msg", a, lk.map, response_json(resp), 237, None,
                           IF resp.json
                           THEN <<Say("order details request"), Say("order details response")>>
                           ELSE <<Say("order details request")>>,
                           Append(lk.reqs, MessageRequest(lk.id, b.interactive, resp)))

\* send_order_status_msg(sender_phone_number, status)
SendOrderStatus ==
    /\ pc = "idle"
    /\ \E sender \in Senders, status \in OrderStatuses,
          dir \in DirResponsesFor(phone_number_to_id_map) :
        LET a == [sender_phone_number |-> sender, status |-> status]
            lk == get_sender_phone_number_id(phone_number_to_id_map, sender, dir)
        IN  IF lk.exc # "none"
            THEN Finish("send_order_status_msg", a, lk.map, lk.exc, lk.line, None,
                        <<>>, lk.reqs)
            ELSE \E resp \in Responses :
                    Finish("send_order_status_msg", a, lk.map, response_json(resp), 283, None,
                           IF resp.json
                           THEN <<Say("order status request"), Say("order status response")>>
                           ELSE <<Say("order status request")>>,
                           Append(lk.reqs, MessageRequest(lk.id, order_status(status), resp)))

\* get_payment_status(business_phone_number, reference_id)
GetPaymentStatus ==
    /\ pc = "idle"
    /\ \E phone \in Senders, reference_id \in ReferenceIds,
          dir \in DirResponsesFor(phone_number_to_id_map), resp \in Responses :
        LET q == get_payment_status(phone_number_to_id_map, phone, reference_id, dir, resp)
        IN  Finish("get_payment_status",
                   [business_phone_number |-> phone, reference_id |-> reference_id],
                   q.map, q.exc, q.line, None, q.printed, q.reqs)

\* verify_webhook(headers, payload)
VerifyWebhook ==
    /\ pc = "idle"
    /\ \E payload \in Payloads :
        \E headers \in HeaderMaps(payload) :
            LET v == verify_webhook(headers, payload)
            IN  Finish("verify_webhook", [headers |-> headers, payload |-> payload],
                       phone_number_to_id_map, v.exc, v.line,
                       IF v.exc = "none" THEN [bool |-> v.ret] ELSE None, <<>>, <<>>)

\* handle_webhook_call(headers, payload)
HandleWebhookCall ==
    /\ pc = "idle"
    /\ \E payload \in Payloads :
        \E headers \in CallbackHeaderMaps(payload),
           dir \in DirResponsesFor(phone_number_to_id_map), resp \in Responses :
            LET h == handle_webhook_call(phone_number_to_id_map, headers, payload, dir, resp)
            IN  Finish("handle_webhook_call", [headers |-> headers, payload |-> payload],
                       h.map, h.exc, h.line, None, h.printed, h.reqs)

\* the caller takes the result and is ready for the next call
Continue ==
    /\ pc = "returned"
    /\ pc' = "idle"
    /\ op' = "none"
    /\ args' = None
    /\ outcome' = "none"
    /\ line' = 0
    /\ ret' = None
    /\ printed' = <<>>
    /\ requests' = <<>>
    /\ UNCHANGED phone_number_to_id_map

Next ==
    \/ NewAmount
    \/ SendOrderDetails
    \/ SendOrderStatus
    \/ GetPaymentStatus
    \/ VerifyWebhook
    \/ HandleWebhookCall
    \/ Continue

-----------------------------------------------------------------------------
(* Properties *)

Called(o) == pc = "returned" /\ op = o

\* the requests of the call that went to the given endpoint
RequestsTo(endpoint) == {i \in 1..Len(requests) : requests[i].endpoint = endpoint}

OptValue(amount) == IF amount = None THEN 0 ELSE amount.value

Price(item) == IF item.sale_amount = None THEN item.amount.value ELSE item.sale_amount.value

ItemsTotal(items) ==
    LET sum[i \in 0..Len(items)] ==
            IF i = 0 THEN 0 ELSE sum[i - 1] + Price(items[i]) * items[i].quantity
    IN  sum[Len(items)]

OrderBuilt == Called("send_order_details_msg") /\ RequestsTo("messages") # {}

EmittedOrder == requests[Len(requests)].interactive

\* C1: the total_amount of every order sent is the sum over the items of the effective
\* amount (sale_amount when present, else amount) times the quantity, plus tax, plus
\* shipping, minus discount, each counted once when present; it is not clamped at zero,
\* and without tax, shipping and discount it is the subtotal.
C1_TotalIsSum ==
    OrderBuilt =>
        /\ args.items # <<>>
        /\ EmittedOrder.total_amount.value =
               ItemsTotal(args.items) + OptValue(args.tax_amount)
                   + OptValue(args.shipping_amount) - OptValue(args.discount_amount)
        /\ EmittedOrder.order.subtotal.value = ItemsTotal(args.items)
        /\ (args.tax_amount = None /\ args.shipping_amount = None
                /\ args.discount_amount = None
            => EmittedOrder.total_amount.value = EmittedOrder.order.subtotal.value)

C1_Witness ==
    /\ OrderBuilt
    /\ Len(args.items) = 2
    /\ args.items[1].sale_amount # None
    /\ args.items[2].sale_amount = None
    /\ args.items[2].quantity = 2
    /\ args.tax_amount # None /\ args.shipping_amount # None /\ args.discount_amount # None
    /\ EmittedOrder.total_amount.value < 0

\* C2: a call of send_order_details_msg with no items ends in a ValueError and has issued
\* no request, whatever the phone directory held.
C2_EmptyItemsFailBeforeNetwork ==
    Called("send_order_details_msg") /\ args.items = <<>>
        => outcome = "ValueError" /\ requests = <<>>

Digest == hexdigest(get_app_secret, args.payload)

HasSignature == SignatureHeader \in DOMAIN args.headers

\* C3: verify_webhook returns true for "sha256=" followed by the digest of the body and
\* accepts no other header value: not one with an altered digest, not one without the
\* prefix, the bare digest included.
C3_OnlyPrefixedDigestAccepted ==
    Called("verify_webhook") /\ HasSignature
        => IF args.headers[SignatureHeader] = Prefix \o Digest
           THEN outcome = "return" /\ ret = [bool |-> TRUE]
           ELSE ret # [bool |-> TRUE]

\* a header value of the form "sha256=" + hex digits of the digest's length
WellFormed(sig) ==
    /\ Len(sig) = Len(Prefix) + Len(Digest)
    /\ IsPrefix(Prefix, sig)
    /\ \A i \in Len(Prefix) + 1..Len(sig) : \E j \in 1..Len(HexDigits) : sig[i] = HexDigits[j]

\* C5: verify_webhook never raises: it returns a boolean for every header map and body,
\* and false when the signature header is missing or malformed.
C5_VerifyNeverRaises ==
    Called("verify_webhook")
        => /\ outcome = "return"
           /\ ret \in {[bool |-> TRUE], [bool |-> FALSE]}
           /\ (~HasSignature \/ ~WellFormed(args.headers[SignatureHeader])
               => ret.bool = FALSE)

\* the endpoint an operation sends its own request to
OwnEndpoint == IF op = "get_payment_status" THEN "payments" ELSE "messages"

\* C6: when the transport answers the request of send_order_details_msg,
\* send_order_status_msg or get_payment_status with a non-success status, the operation
\* does not return normally, and it has issued the request once.
C6_NonSuccessIsRaised ==
    /\ pc = "returned"
    /\ op \in {"send_order_details_msg", "send_order_status_msg", "get_payment_status"}
    /\ \E i \in RequestsTo(OwnEndpoint) : requests[i].status # 200
    => outcome # "return" /\ Cardinality(RequestsTo(OwnEndpoint)) = 1

\* the call got as far as building the order (sender resolved, header accepted)
ReachedOrder == Called("send_order_details_msg") /\ line \notin {65, 69, 81, 138}

OutOfStep(items, tax, shipping, discount) ==
    LET scale == items[1].amount.offset
    IN  \/ \E i \in 1..Len(items) :
              IF items[i].sale_amount = None THEN items[i].amount.offset # scale
              ELSE items[i].sale_amount.offset # scale
        \/ \E a \in {tax, shipping, discount} \ {None} : a.offset # scale

\* C7: an order in which the effective amount of an item, or a present tax, shipping or
\* discount amount, has a scale other than the order's fails with a ValueError.
C7_MixedScalesRejected ==
    /\ ReachedOrder
    /\ args.items # <<>>
    /\ OutOfStep(args.items, args.tax_amount, args.shipping_amount, args.discount_amount)
    => outcome = "ValueError"

Verified ==
    /\ Called("handle_webhook_call")
    /\ LET v == verify_webhook(args.headers, args.payload) IN v.exc = "none" /\ v.ret

\* the callback is for this account's messages
PassesAccountGuards ==
    /\ IsJson(args.payload)
    /\ args.payload.object = "whatsapp_business_account"
    /\ args.payload.entry[1].id = get_waba
    /\ args.payload.entry[1].changes[1].field = "messages"

CallbackValue == args.payload.entry[1].changes[1].value

\* the inbound message carries an interactive sub-object of type "payment"
CarriesConfirmation ==
    /\ "messages" \in DOMAIN CallbackValue
    /\ CallbackValue.messages # <<>>
    /\ "interactive" \in DOMAIN CallbackValue.messages[1]
    /\ "type" \in DOMAIN CallbackValue.messages[1].interactive
    /\ CallbackValue.messages[1].interactive.type = "payment"

\* the first status entry is a payment status update
QualifyingStatus ==
    /\ "statuses" \in DOMAIN CallbackValue
    /\ CallbackValue.statuses # <<>>
    /\ LET e == CallbackValue.statuses[1]
       IN  /\ {"recipient_id", "type", "status", "timestamp", "payment"} \subseteq DOMAIN e
           /\ e.type = [str |-> "payment"]
           /\ \E st \in {"pending", "failed", "success", "canceled"} : e.status = [str |-> st]
           /\ "reference_id" \in DOMAIN e.payment

\* C4: a verified callback for this account whose first status entry is a payment status
\* update, and that carries no payment confirmation, is reported as a transaction status
\* update and queries the payment status exactly once; the handler returns.
C4_StatusUpdateQueriesOnce ==
    Verified /\ PassesAccountGuards /\ QualifyingStatus /\ ~CarriesConfirmation
        => /\ outcome = "return"
           /\ \E i \in 1..Len(printed) : printed[i].msg = "transaction status update"
           /\ Cardinality(RequestsTo("payments")) = 1

CompleteConfirmation ==
    /\ "payment" \in DOMAIN CallbackValue.messages[1].interactive
    /\ {"transaction_id", "reference_id", "status"}
           \subseteq DOMAIN CallbackValue.messages[1].interactive.payment
    /\ "metadata" \in DOMAIN CallbackValue
    /\ "display_phone_number" \in DOMAIN CallbackValue.metadata

C10_OtherShapesUnrecognized ==
    Verified /\ PassesAccountGuards /\ ~CarriesConfirmation /\ ~QualifyingStatus
        => /\ outcome = "return"
           /\ printed = <<[msg |-> "not a payment confirmation or transaction status update",
                           payload |-> args.payload]>>
           /\ RequestsTo("payments") = {}

\* verify_webhook returns false for the callback handed to handle_webhook_call
Rejected(headers, payload) ==
    LET v == verify_webhook(headers, payload) IN v.exc = "none" /\ ~v.ret

\* C11: a call of handle_webhook_call whose callback verify_webhook answers with false
\* returns normally at line 304 having only said that the call cannot be verified: the
\* body is neither parsed nor classified, no request is issued, and the phone directory
\* is what it was before the call.
C11_UnverifiedShortCircuits ==
    [][pc = "idle" /\ op' = "handle_webhook_call" /\ Rejected(args'.headers, args'.payload)
        => /\ outcome' = "return"
           /\ line' = 304
           /\ printed' = <<[msg |-> "cannot be verified"]>>
           /\ requests' = <<>>
           /\ phone_number_to_id_map' = phone_number_to_id_map]_vars

C11_Witness ==
    /\ Called("handle_webhook_call")
    /\ Rejected(args.headers, args.payload)
    /\ PassesAccountGuards /\ QualifyingStatus /\ CarriesConfirmation
    /\ phone_number_to_id_map # <<>>
    /\ outcome = "return"
    /\ line = 304

\* the identity the directory holds for a number
IdentityOf(m, number) == {m[i].id : i \in {j \in 1..Len(m) : m[j].number = number}}

\* the step issues a directory fetch
Fetches == \E i \in 1..Len(requests') : requests'[i].endpoint = "phone_numbers"

\* the sender number the step's operation looks up, if it names one
LooksUp(number) ==
    \/ /\ op' \in {"send_order_details_msg", "send_order_status_msg"}
       /\ args'.sender_phone_number = number
    \/ /\ op' = "get_payment_status"
       /\ args'.business_phone_number = number

\* C12: over every step of every operation, a number that maps to an identity keeps that
\* identity; the directory changes only when it was empty, by a step that fetched it; and
\* no step fetches the directory when it holds an entry, in particular not a lookup of
\* a number it holds.
C12_DirectoryIsStable ==
    [][/\ \A n \in MapKeys(phone_number_to_id_map) :
              /\ n \in MapKeys(phone_number_to_id_map')
              /\ IdentityOf(phone_number_to_id_map', n) = IdentityOf(phone_number_to_id_map, n)
       /\ (phone_number_to_id_map' # phone_number_to_id_map
              => phone_number_to_id_map = <<>> /\ Fetches)
       /\ (Fetches => phone_number_to_id_map = <<>>)
       /\ \A n \in MapKeys(phone_number_to_id_map) : LooksUp(n) => ~Fetches]_vars

\* a lookup answered from the directory filled by an earlier call
C12_Witness ==
    /\ Called("send_order_status_msg")
    /\ outcome = "return"
    /\ Len(phone_number_to_id_map) > 1
    /\ args.sender_phone_number \in MapKeys(phone_number_to_id_map)
    /\ RequestsTo("phone_numbers") = {}
    /\ RequestsTo("messages") # {}

Spec == Init /\ [][Next]_vars
====
